---- MODULE Spec2Model ----
(***************************************************************************)
(* Model of the presence tracker of led-statusboard (src/src/transit.rs): *)
(* the state machine TransitState::update_state, the polling task spawned *)
(* by TransitRender::new, the mutex-guarded StateHolder, and              *)
(* TransitRender::render / Drop.                                          *)
(*                                                                         *)
(* Geography is abstracted to distances in metres: the person's location  *)
(* is one of a few places, each with its distance to every catalog        *)
(* station, and every train of a feed carries its distance to the person. *)
(* A distance of GeoFail stands for coordinates on which geoutils'        *)
(* Vincenty iteration does not converge (is_in_circle / distance_to       *)
(* return Err).  Time is in seconds.                                      *)
(***************************************************************************)
EXTENDS Integers, Sequences, FiniteSets, TLC

VARIABLES
    transit_state,   \* StateHolder.transit_state.state : Option<State>
    person_name,     \* StateHolder.person_name : Option<String>
    person_state,    \* StateHolder.person_state : Option<String>
    mutex,           \* owner of the parking_lot Mutex: "free", "poll", "render"
    alive,           \* the AtomicBool shared with the task
    dropped,         \* TransitRender was dropped (abort() was called)
    pc,              \* position of the polling task
    fetched,         \* outcome of the join!: the Result and (person_name, person_state)
    prev,            \* last call of update_state: the variant it took and its `now`
    clock,           \* the monotonic clock read by Instant::now()
    fetches,         \* number of join!(trains_request, user_location_request) issued
    advances,        \* number of calls of update_state
    published,       \* the holder as left by the last completed publication
    rpc,             \* position of the render call
    canvas,          \* draw operations of the render call in progress
    stopped_at       \* position of the task when Drop stored false in the flag

vars == << transit_state, person_name, person_state, mutex, alive, dropped, pc,
           fetched, prev, clock, fetches, advances, published, rpc, canvas, stopped_at >>

-----------------------------------------------------------------------------
(* Option<T> *)
None == << >>
Some(x) == << x >>
is_some(o) == o # None
unwrap(o) == o[1]

-----------------------------------------------------------------------------
(* Program constants *)
NO_STATUS_TO_AT_STATION == 30
AT_STATION_ENTER_RADIUS == 200
AT_STATION_TO_NO_STATUS_TIMEOUT == 60
AT_STATION_LEAVE_RADIUS == 200
ON_TRAIN_TO_NO_STATUS_TIMEOUT == 300
ON_TRAIN_ENTER_RADIUS == 400
ON_TRAIN_REMAIN_RADIUS == 400
SLEEP_SECS == 15

(* Bounds of the model *)
MaxPolls == 4          \* iterations of the polling task under Spec
MaxStationTicks == 6   \* ticks under SpecStation
MaxTrainTicks == 5     \* ticks under SpecTrain
MaxFeedLen == 2        \* trains in one feed

-----------------------------------------------------------------------------
(* The environment: catalog, places, feeds, clock steps *)

\* RegionalRailStop::iter(): the known stops in declaration order, then the
\* Unknown(String) variant with its default payload.
Catalog == << "S1", "S2", "Unknown" >>

GeoFail == -1

Places == { "far", "atS1", "nearS2", "between", "antipode" }

\* Distance in metres from a place to a station (GeoFail: no convergence).
StationDistance(place, station) ==
    CASE place = "far"      -> 1000
      [] place = "atS1"     -> IF station = "S1" THEN 0 ELSE 1000
      [] place = "nearS2"   -> IF station = "S1" THEN 150 ELSE 100
      [] place = "between"  -> 100
      [] place = "antipode" -> GeoFail

TrainIds == { "T1", "T2" }
TrainDistances == { 100, 300, 500 }
Train == [ train_number : TrainIds, dist : TrainDistances ]

\* Train feeds: sequences of at most MaxFeedLen trains, one entry per train id,
\* and the feeds of one train whose coordinates make the geofence test fail.
Feeds ==
    { f \in UNION { [1..n -> Train] : n \in 0..MaxFeedLen } :
        \A i, j \in 1..Len(f) : i # j => f[i].train_number # f[j].train_number }
    \cup { << [ train_number |-> id, dist |-> GeoFail ] >> : id \in TrainIds }

\* Seconds between two calls of Instant::now(): the 15 s sleep, then the time
\* the two fetches take (no timeout bounds it).
ClockSteps == { SLEEP_SECS, 2 * SLEEP_SECS, 315 }
LongSteps == { 2 * SLEEP_SECS, 315 }

\* (person_name, person_state) as returned by get_location
Persons == { [ name |-> None, status |-> None ],
             [ name |-> Some("Ann"), status |-> Some("home") ] }

\* The environment of the polling task under Spec
PollPlaces == { "far", "atS1", "antipode" }
PollFeeds == { f \in Feeds : \A i \in 1..Len(f) :
                 f[i].train_number = "T1" /\ f[i].dist # 500 }

-----------------------------------------------------------------------------
(* enum State and its trackers *)

NoStatus(first) ==
    [ tag |-> "NoStatus", station_to_first_encounter |-> first ]

AtStation(station, encounters, outside) ==
    [ tag |-> "AtStation", station |-> station,
      train_id_to_first_encounter |-> encounters,
      time_outside_station |-> outside ]

OnTrain(train_id, last) ==
    [ tag |-> "OnTrain", train_id |-> train_id, last_train_encounter |-> last ]

TrainEncounter(inside, outside) ==
    [ first_encounter_inside_station |-> inside,
      first_encounter_outside_station |-> outside ]

\* HashMap::new() and HashMap::remove
EmptyMap == << >>
\* MapRemove that leaves the entry in the map
MapRemoveNothing(m, k) == m
MapRemove(m, k) == [ x \in (DOMAIN m) \ {k} |-> m[x] ]
MapInsert(m, k, v) == [ x \in (DOMAIN m) \cup {k} |-> IF x = k THEN v ELSE m[x] ]

\* Result<()> of update_state together with self.state as the call leaves it.
\* self.state was emptied by take(), so a call that returns early (the ?
\* operator) or unwinds (expect) leaves it None.
Ok(state) == [ res |-> "Ok", state |-> Some(state) ]
Err == [ res |-> "Err", state |-> None ]
Panic == [ res |-> "Panic", state |-> None ]

-----------------------------------------------------------------------------
(* geoutils and septa_api as the code uses them *)

\* Location::is_in_circle on a distance that was computed
is_in_circle(distance, radius) == distance < radius

\* RegionalRailStop::lat_lon(): an error for the Unknown variant
lat_lon_ok(station) == station # "Unknown"

\* Instant - Instant is duration_since, which saturates to zero when the
\* right operand is the later instant.
duration_since(later, earlier) == IF later >= earlier THEN later - earlier ELSE 0

-----------------------------------------------------------------------------
(* update_state, State::NoStatus arm *)

\* RegionalRailStop::iter().filter(|p| !matches!(p, RegionalRailStop::Unknown(_)))
KnownStations == SelectSeq(Catalog, LAMBDA p : p # "Unknown")

\* dwell_elapsed measured against the timeout of the AtStation arm
dwell_elapsed_wrong_constant(now, first_encounter) ==
    duration_since(now, first_encounter) > AT_STATION_TO_NO_STATUS_TIMEOUT

\* now - *first_encounter > NO_STATUS_TO_AT_STATION
dwell_elapsed(now, first_encounter) ==
    duration_since(now, first_encounter) > NO_STATUS_TO_AT_STATION

\* The for loop over the catalog: the updated map and the eligible stations.
RECURSIVE scan_stations(_, _, _, _, _)
scan_stations(stations, first, eligible, place, now) ==
    IF stations = << >>
    THEN [ res |-> "Ok", first |-> first, eligible |-> eligible ]
    ELSE LET station == Head(stations)
             rest == Tail(stations)
             distance == StationDistance(place, station)
         IN  IF ~lat_lon_ok(station)
             THEN [ res |-> "Err", first |-> first, eligible |-> eligible ]
             ELSE IF distance = GeoFail   \* .expect("is_in_circle failed")
             THEN [ res |-> "Panic", first |-> first, eligible |-> eligible ]
             ELSE IF is_in_circle(distance, AT_STATION_ENTER_RADIUS)
             THEN IF station \in DOMAIN first
                  THEN scan_stations(rest, first,
                          IF dwell_elapsed(now, first[station])
                          THEN Append(eligible, station) ELSE eligible,
                          place, now)
                  ELSE scan_stations(rest, MapInsert(first, station, now),
                                     eligible, place, now)
             ELSE scan_stations(rest, MapRemove(first, station), eligible,
                                place, now)

\* closer with an equally near station replacing the closest so far
closer_or_equal(distance, closest_distance) == distance <= closest_distance

\* distance.meters() < closest_distance.meters()
closer(distance, closest_distance) == distance < closest_distance

\* The loop that picks the closest of several eligible stations.
RECURSIVE closest_of(_, _, _, _)
closest_of(eligible, closest_station, closest_distance, place) ==
    IF eligible = << >>
    THEN [ res |-> "Ok", station |-> closest_station ]
    ELSE LET station == Head(eligible)
             distance == StationDistance(place, station)
         IN  IF ~lat_lon_ok(station) \/ distance = GeoFail
             THEN [ res |-> "Err", station |-> closest_station ]
             ELSE IF closer(distance, closest_distance)
             THEN closest_of(Tail(eligible), station, distance, place)
             ELSE closest_of(Tail(eligible), closest_station, closest_distance,
                             place)

\* single_eligible with the candidacy timestamp carried into the new tracker
single_eligible_carries_clock(eligible, tracker_first) ==
    AtStation(eligible[1], EmptyMap, Some(tracker_first[eligible[1]]))

\* match eligible_stations.len() { 1 => ... }
single_eligible(eligible, tracker_first) ==
    AtStation(eligible[1], EmptyMap, None)

no_status_arm(tracker, place, now) ==
    LET scan == scan_stations(KnownStations, tracker.station_to_first_encounter,
                              << >>, place, now)
    IN  IF scan.res = "Err" THEN Err
        ELSE IF scan.res = "Panic" THEN Panic
        ELSE IF Len(scan.eligible) = 0 THEN Ok(NoStatus(scan.first))
        ELSE IF Len(scan.eligible) = 1
        THEN Ok(single_eligible(scan.eligible, scan.first))
        ELSE LET first_distance == StationDistance(place, scan.eligible[1])
             IN  IF ~lat_lon_ok(scan.eligible[1]) \/ first_distance = GeoFail
                 THEN Err
                 ELSE LET pick == closest_of(scan.eligible, scan.eligible[1],
                                             first_distance, place)
                      IN  IF pick.res = "Err" THEN Err
                          ELSE Ok(AtStation(pick.station, EmptyMap, None))

-----------------------------------------------------------------------------
(* update_state, State::AtStation arm *)

\* left_station with the timeout itself counted as elapsed
left_station_at_timeout(now, first_left) ==
    duration_since(now, first_left) >= AT_STATION_TO_NO_STATUS_TIMEOUT

\* now - first_left > AT_STATION_TO_NO_STATUS_TIMEOUT
left_station(now, first_left) ==
    duration_since(now, first_left) > AT_STATION_TO_NO_STATUS_TIMEOUT

\* The is_in_circle test against the station and the update of
\* time_outside_station; is_outside_location is the flag of line 217.
leave_check(tracker, distance, now) ==
    IF is_in_circle(distance, AT_STATION_LEAVE_RADIUS)
    THEN [ is_outside_location |-> FALSE, time_outside_station |-> None ]
    ELSE IF is_some(tracker.time_outside_station)
    THEN [ is_outside_location |->
               left_station(now, unwrap(tracker.time_outside_station)),
           time_outside_station |-> tracker.time_outside_station ]
    ELSE [ is_outside_location |-> FALSE, time_outside_station |-> Some(now) ]

\* x.or(Some(now))
or_some(x, now) == IF is_some(x) THEN x ELSE Some(now)

\* The classification of one sample of a train within ON_TRAIN_ENTER_RADIUS
record_encounter(train_encounters, distance, now) ==
    IF is_in_circle(distance, AT_STATION_LEAVE_RADIUS)   \* currently_at_station
    THEN TrainEncounter(
             or_some(train_encounters.first_encounter_inside_station, now),
             train_encounters.first_encounter_outside_station)
    ELSE TrainEncounter(
             train_encounters.first_encounter_inside_station,
             or_some(train_encounters.first_encounter_outside_station, now))

\* both_encounters with "or" in place of "and"
either_encounter(train_encounters) ==
    \/ is_some(train_encounters.first_encounter_inside_station)
    \/ is_some(train_encounters.first_encounter_outside_station)

\* both_encounters with the outside encounter not required
inside_encounter_only(train_encounters) ==
    is_some(train_encounters.first_encounter_inside_station)

\* both_encounters with the inside encounter required to be the earlier one
both_encounters_in_order(train_encounters) ==
    /\ is_some(train_encounters.first_encounter_inside_station)
    /\ is_some(train_encounters.first_encounter_outside_station)
    /\ unwrap(train_encounters.first_encounter_inside_station)
           < unwrap(train_encounters.first_encounter_outside_station)

\* first_encounter_inside_station.is_some() && first_encounter_outside_station.is_some()
both_encounters(train_encounters) ==
    /\ is_some(train_encounters.first_encounter_inside_station)
    /\ is_some(train_encounters.first_encounter_outside_station)

\* train_loop without the break: the scan goes on after a match and the last
\* train that completes both encounters is the matched one
RECURSIVE train_loop_last_match(_, _, _)
train_loop_last_match(trains, encounters, now) ==
    IF trains = << >>
    THEN [ res |-> "Ok", encounters |-> encounters, matched_train |-> None ]
    ELSE LET train == Head(trains)
             id == train.train_number
         IN  IF train.dist = GeoFail
             THEN [ res |-> "Err", encounters |-> encounters,
                    matched_train |-> None ]
             ELSE IF is_in_circle(train.dist, ON_TRAIN_ENTER_RADIUS)
             THEN IF id \in DOMAIN encounters
                  THEN LET updated == record_encounter(encounters[id],
                                                       train.dist, now)
                           map == MapInsert(encounters, id, updated)
                           rest == train_loop_last_match(Tail(trains), map, now)
                       IN  IF both_encounters(updated)
                              /\ rest.res = "Ok"
                              /\ ~is_some(rest.matched_train)
                           THEN [ res |-> "Ok", encounters |-> map,
                                  matched_train |-> Some(id) ]
                           ELSE rest
                  ELSE train_loop_last_match(Tail(trains),
                           MapInsert(encounters, id,
                               record_encounter(TrainEncounter(None, None),
                                                train.dist, now)),
                           now)
             ELSE train_loop_last_match(Tail(trains),
                                        MapRemove(encounters, id), now)

\* 'train_loop: the updated encounter map and the matched train, if any.
RECURSIVE train_loop(_, _, _)
train_loop(trains, encounters, now) ==
    IF trains = << >>
    THEN [ res |-> "Ok", encounters |-> encounters, matched_train |-> None ]
    ELSE LET train == Head(trains)
             id == train.train_number
         IN  IF train.dist = GeoFail
             THEN [ res |-> "Err", encounters |-> encounters,
                    matched_train |-> None ]
             ELSE IF is_in_circle(train.dist, ON_TRAIN_ENTER_RADIUS)
             THEN IF id \in DOMAIN encounters
                  THEN LET updated == record_encounter(encounters[id],
                                                       train.dist, now)
                           map == MapInsert(encounters, id, updated)
                       IN  IF both_encounters(updated)
                           THEN [ res |-> "Ok", encounters |-> map,
                                  matched_train |-> Some(id) ]
                           ELSE train_loop(Tail(trains), map, now)
                  ELSE train_loop(Tail(trains),
                           MapInsert(encounters, id,
                               record_encounter(TrainEncounter(None, None),
                                                train.dist, now)),
                           now)
             ELSE train_loop(Tail(trains), MapRemove(encounters, id), now)

\* at_station_arm with the trains scanned before the leave timeout is looked at
at_station_arm_trains_first(tracker, place, trains, now) ==
    LET distance == StationDistance(place, tracker.station)
    IN  IF ~lat_lon_ok(tracker.station) \/ distance = GeoFail THEN Err
        ELSE LET leave == leave_check(tracker, distance, now)
                 scan == train_loop(trains,
                                    tracker.train_id_to_first_encounter, now)
             IN  IF scan.res = "Err" THEN Err
                 ELSE IF is_some(scan.matched_train)
                 THEN Ok(OnTrain(unwrap(scan.matched_train), now))
                 ELSE IF leave.is_outside_location THEN Ok(NoStatus(EmptyMap))
                 ELSE Ok(AtStation(tracker.station, scan.encounters,
                                   leave.time_outside_station))

\* at_station_arm with the entries of the trains missing from the feed dropped
at_station_arm_prunes_absent(tracker, place, trains, now) ==
    LET distance == StationDistance(place, tracker.station)
        in_feed == { trains[i].train_number : i \in 1..Len(trains) }
        kept == [ id \in (DOMAIN tracker.train_id_to_first_encounter)
                            \cap in_feed
                    |-> tracker.train_id_to_first_encounter[id] ]
    IN  IF ~lat_lon_ok(tracker.station) \/ distance = GeoFail THEN Err
        ELSE LET leave == leave_check(tracker, distance, now)
             IN  IF leave.is_outside_location THEN Ok(NoStatus(EmptyMap))
                 ELSE LET scan == train_loop(trains, kept, now)
                      IN  IF scan.res = "Err" THEN Err
                          ELSE IF is_some(scan.matched_train)
                          THEN Ok(OnTrain(unwrap(scan.matched_train), now))
                          ELSE Ok(AtStation(tracker.station, scan.encounters,
                                            leave.time_outside_station))

at_station_arm(tracker, place, trains, now) ==
    LET distance == StationDistance(place, tracker.station)
    IN  IF ~lat_lon_ok(tracker.station) \/ distance = GeoFail THEN Err
        ELSE LET leave == leave_check(tracker, distance, now)
             IN  IF leave.is_outside_location THEN Ok(NoStatus(EmptyMap))
                 ELSE LET scan == train_loop(trains,
                                      tracker.train_id_to_first_encounter, now)
                      IN  IF scan.res = "Err" THEN Err
                          ELSE IF is_some(scan.matched_train)
                          THEN Ok(OnTrain(unwrap(scan.matched_train), now))
                          ELSE Ok(AtStation(tracker.station, scan.encounters,
                                            leave.time_outside_station))

-----------------------------------------------------------------------------
(* update_state, State::OnTrain arm *)

\* trains.iter().find(|&train| train.train_number == tracker.train_id)
RECURSIVE find_train(_, _)
find_train(trains, train_id) ==
    IF trains = << >> THEN None
    ELSE IF Head(trains).train_number = train_id THEN Some(Head(trains))
    ELSE find_train(Tail(trains), train_id)

\* The search of the whole catalog (Unknown included) for a station whose
\* enter radius contains the person; the first match wins.
RECURSIVE containing_station(_, _)
containing_station(stations, place) ==
    IF stations = << >> THEN [ res |-> "Ok", station |-> None ]
    ELSE LET station == Head(stations)
             distance == StationDistance(place, station)
         IN  IF ~lat_lon_ok(station) \/ distance = GeoFail
             THEN [ res |-> "Err", station |-> None ]
             ELSE IF is_in_circle(distance, AT_STATION_ENTER_RADIUS)
             THEN [ res |-> "Ok", station |-> Some(station) ]
             ELSE containing_station(Tail(stations), place)

\* tracker.last_train_encounter - now > ON_TRAIN_TO_NO_STATUS_TIMEOUT
train_timed_out(tracker, now) ==
    duration_since(tracker.last_train_encounter, now)
        > ON_TRAIN_TO_NO_STATUS_TIMEOUT

\* train_absent with a grace period: the tracker is kept
train_absent_kept(tracker) ==
    OnTrain(tracker.train_id, tracker.last_train_encounter)

\* current_train is None => State::NoStatus with a new map
train_absent(tracker) == NoStatus(EmptyMap)

on_train_arm(tracker, place, trains, now) ==
    LET current_train == find_train(trains, tracker.train_id)
    IN  IF ~is_some(current_train) THEN Ok(train_absent(tracker))
        ELSE LET train == unwrap(current_train)
             IN  IF train.dist = GeoFail THEN Err
                 ELSE IF is_in_circle(train.dist, ON_TRAIN_REMAIN_RADIUS)
                 THEN Ok(OnTrain(tracker.train_id, now))
                 ELSE IF train_timed_out(tracker, now)
                 THEN LET found == containing_station(Catalog, place)
                      IN  IF found.res = "Err" THEN Err
                          ELSE IF is_some(found.station)
                          THEN Ok(AtStation(unwrap(found.station), EmptyMap, None))
                          ELSE Ok(NoStatus(EmptyMap))
                 ELSE Ok(OnTrain(tracker.train_id, tracker.last_train_encounter))

-----------------------------------------------------------------------------
(* TransitState::update_state *)

\* taken with a station tracker as the default of an absent state
taken_default_station(state) ==
    IF is_some(state) THEN unwrap(state)
    ELSE AtStation(Catalog[1], EmptyMap, None)

\* self.state.take(), with NoStatus(default) standing in for None
taken(state) == IF is_some(state) THEN unwrap(state) ELSE NoStatus(EmptyMap)

update_state(state, place, trains, now) ==
    LET local == taken(state)
    IN  CASE local.tag = "NoStatus"  -> no_status_arm(local, place, now)
          [] local.tag = "AtStation" -> at_station_arm(local, place, trains, now)
          [] local.tag = "OnTrain"   -> on_train_arm(local, place, trains, now)

-----------------------------------------------------------------------------
(* TransitRender::render *)

Placeholder == "Unknown"

\* A text is the sequence of its parts: a string by itself, and the literal
\* of a format! followed by the Display of its argument.
str(s) == << s >>
format(literal, argument) == << literal, argument >>

\* render_ops with the canvas cleared before the state is looked at
render_ops_always_fill(state, name, status) ==
    IF is_some(state)
    THEN << "fill",
            str(IF is_some(name) THEN unwrap(name) ELSE Placeholder),
            CASE unwrap(state).tag = "NoStatus" ->
                     str(IF is_some(status) THEN unwrap(status) ELSE Placeholder)
              [] unwrap(state).tag = "AtStation" ->
                     format("At Station", unwrap(state).station)
              [] unwrap(state).tag = "OnTrain" ->
                     format("On Train", unwrap(state).train_id) >>
    ELSE << "fill" >>

\* render_ops with the person's status text drawn for every variant
render_ops_status_only(state, name, status) ==
    IF is_some(state)
    THEN << "fill",
            str(IF is_some(name) THEN unwrap(name) ELSE Placeholder),
            str(IF is_some(status) THEN unwrap(status) ELSE Placeholder) >>
    ELSE << >>

\* The fill and the two text draws of one render call on a given holder;
\* no operation at all when no state is present.
render_ops(state, name, status) ==
    IF is_some(state)
    THEN << "fill",
            str(IF is_some(name) THEN unwrap(name) ELSE Placeholder),
            CASE unwrap(state).tag = "NoStatus" ->
                     str(IF is_some(status) THEN unwrap(status) ELSE Placeholder)
              [] unwrap(state).tag = "AtStation" ->
                     format("At Station", unwrap(state).station)
              [] unwrap(state).tag = "OnTrain" ->
                     format("On Train", unwrap(state).train_id) >>
    ELSE << >>

-----------------------------------------------------------------------------
(* The system *)

\* Result of the join! as the task holds it
NotFetched == [ res |-> "None", name |-> None, status |-> None ]
FetchOk(person) == [ res |-> "Ok", name |-> person.name, status |-> person.status ]
FetchErr == [ res |-> "Err", name |-> None, status |-> None ]

\* The three fields of StateHolder
Holder == [ state |-> transit_state, name |-> person_name,
            status |-> person_state ]

Init ==
    /\ transit_state = None          \* StateHolder::default()
    /\ person_name = None
    /\ person_state = None
    /\ mutex = "free"
    /\ alive = TRUE
    /\ dropped = FALSE
    /\ pc = "top"
    /\ fetched = NotFetched
    /\ prev = None
    /\ clock = 0
    /\ fetches = 0
    /\ advances = 0
    /\ published = [ state |-> None, name |-> None, status |-> None ]
    /\ rpc = "idle"
    /\ canvas = << >>
    /\ stopped_at = None

(* The polling task of TransitRender::new *)

\* while task_alive.load(..) is true: the two requests are built and joined.
PollIssue ==
    /\ pc = "top"
    /\ alive
    /\ fetches < MaxPolls
    /\ pc' = "fetching"
    /\ fetches' = fetches + 1
    /\ UNCHANGED << transit_state, person_name, person_state, mutex, alive,
                    dropped, fetched, prev, clock, advances, published, rpc,
                    canvas, stopped_at >>

\* while task_alive.load(..) is false: the loop ends and the task returns Ok(()).
PollExit ==
    /\ pc = "top"
    /\ ~alive
    /\ pc' = "exited"
    /\ UNCHANGED << transit_state, person_name, person_state, mutex, alive,
                    dropped, fetched, prev, clock, fetches, advances, published,
                    rpc, canvas, stopped_at >>

\* PollJoinErr with the error swallowed: the loop goes on to its sleep
PollJoinErrRetry ==
    /\ pc = "fetching"
    /\ ~dropped
    /\ fetched' = FetchErr
    /\ pc' = "sleep"
    /\ UNCHANGED << transit_state, person_name, person_state, mutex, alive,
                    dropped, prev, clock, fetches, advances, published, rpc,
                    canvas, stopped_at >>

\* join! completes and user_location_result? or trains_result? returns the error.
PollJoinErr ==
    /\ pc = "fetching"
    /\ ~dropped
    /\ fetched' = FetchErr
    /\ pc' = "fetch_failed"
    /\ UNCHANGED << transit_state, person_name, person_state, mutex, alive,
                    dropped, prev, clock, fetches, advances, published, rpc,
                    canvas, stopped_at >>

\* PollJoinOk with the tick dropped: no update_state, no publication
PollJoinOkSkipsUpdate ==
    /\ pc = "fetching"
    /\ ~dropped
    /\ pc' = "sleep"
    /\ UNCHANGED << transit_state, person_name, person_state, mutex, alive,
                    dropped, fetched, prev, clock, fetches, advances, published,
                    rpc, canvas, stopped_at >>

\* PollJoinOk with the flag read again after the join: the iteration is cut
\* short when the flag is false
PollJoinOkChecksFlag ==
    /\ pc = "fetching"
    /\ ~dropped
    /\ IF alive
       THEN /\ \E person \in Persons : fetched' = FetchOk(person)
            /\ pc' = "lock"
       ELSE /\ pc' = "exited"
            /\ UNCHANGED fetched
    /\ UNCHANGED << transit_state, person_name, person_state, mutex, alive,
                    dropped, prev, clock, fetches, advances, published, rpc,
                    canvas, stopped_at >>

\* join! completes with both results Ok.  The name and status are kept for the
\* two writes; the coordinates and the trains are drawn where update_state
\* consumes them.
PollJoinOk ==
    /\ pc = "fetching"
    /\ ~dropped
    /\ \E person \in Persons : fetched' = FetchOk(person)
    /\ pc' = "lock"
    /\ UNCHANGED << transit_state, person_name, person_state, mutex, alive,
                    dropped, prev, clock, fetches, advances, published, rpc,
                    canvas, stopped_at >>

\* task_state_holder.lock()
PollLock ==
    /\ pc = "lock"
    /\ mutex = "free"
    /\ mutex' = "poll"
    /\ pc' = "update"
    /\ UNCHANGED << transit_state, person_name, person_state, alive, dropped,
                    fetched, prev, clock, fetches, advances, published, rpc,
                    canvas, stopped_at >>

\* holder_unlocked.transit_state.update_state(..)?  An error or a panic leaves
\* the block: the guard is dropped and the task ends.
PollUpdate ==
    /\ pc = "update"
    /\ \E place \in PollPlaces, trains \in PollFeeds :
         LET result == update_state(transit_state, place, trains, clock)
         IN  /\ transit_state' = result.state
             /\ IF result.res = "Ok"
                THEN /\ pc' = "name"
                     /\ UNCHANGED << mutex, fetched >>
                ELSE /\ pc' = "update_failed"
                     /\ mutex' = "free"
                     /\ fetched' = NotFetched
    /\ prev' = Some([ tag |-> taken(transit_state).tag, now |-> clock ])
    /\ advances' = advances + 1
    /\ UNCHANGED << person_name, person_state, alive, dropped, clock, fetches,
                    published, rpc, canvas, stopped_at >>

\* holder_unlocked.person_name = person_name
PollName ==
    /\ pc = "name"
    /\ person_name' = fetched.name
    /\ pc' = "status"
    /\ UNCHANGED << transit_state, person_state, mutex, alive, dropped, fetched,
                    prev, clock, fetches, advances, published, rpc, canvas, stopped_at >>

\* PollStatus with the guard kept alive past the block, into the sleep
PollStatusKeepsGuard ==
    /\ pc = "status"
    /\ person_state' = fetched.status
    /\ published' = [ state |-> transit_state, name |-> person_name,
                      status |-> fetched.status ]
    /\ fetched' = NotFetched
    /\ pc' = "sleep"
    /\ UNCHANGED << transit_state, person_name, mutex, alive, dropped, prev,
                    clock, fetches, advances, rpc, canvas, stopped_at >>

\* holder_unlocked.person_state = person_state, and the guard is dropped at
\* the end of the block.
PollStatus ==
    /\ pc = "status"
    /\ person_state' = fetched.status
    /\ mutex' = "free"
    /\ published' = [ state |-> transit_state, name |-> person_name,
                      status |-> fetched.status ]
    /\ fetched' = NotFetched
    /\ pc' = "sleep"
    /\ UNCHANGED << transit_state, person_name, alive, dropped, prev, clock,
                    fetches, advances, rpc, canvas, stopped_at >>

\* tokio::time::sleep(Duration::from_secs(15)).await completes
PollSleep ==
    /\ pc = "sleep"
    /\ ~dropped
    /\ \E step \in LongSteps : clock' = clock + step
    /\ pc' = "top"
    /\ UNCHANGED << transit_state, person_name, person_state, mutex, alive,
                    dropped, fetched, prev, fetches, advances, published, rpc,
                    canvas, stopped_at >>

\* PollAbort as a kill at any position: the task stops where it is, the guard
\* it may hold is never dropped
PollAbortAnywhere ==
    /\ dropped
    /\ pc \in { "fetching", "lock", "update", "name", "status", "sleep" }
    /\ pc' = "aborted"
    /\ UNCHANGED << transit_state, person_name, person_state, mutex, alive,
                    dropped, fetched, prev, clock, fetches, advances, published,
                    rpc, canvas, stopped_at >>

\* task_handle.abort() takes effect at the await the task is suspended in.
PollAbort ==
    /\ dropped
    /\ pc \in { "fetching", "sleep" }
    /\ pc' = "aborted"
    /\ UNCHANGED << transit_state, person_name, person_state, mutex, alive,
                    dropped, fetched, prev, clock, fetches, advances, published,
                    rpc, canvas, stopped_at >>

(* Drop for TransitRender: needs &mut self, so no render call is in progress. *)
(* The store and the abort are two steps of the dropping thread; the task   *)
(* runs on the runtime's threads in between.                                *)

\* self.alive.store(false, Ordering::SeqCst)
DropStore ==
    /\ alive
    /\ rpc = "idle"
    /\ alive' = FALSE
    /\ stopped_at' = Some(pc)
    /\ UNCHANGED << transit_state, person_name, person_state, mutex, dropped,
                    pc, fetched, prev, clock, fetches, advances, published, rpc,
                    canvas >>

\* self.update_task_handle.take() is Some: task_handle.abort()
DropAbort ==
    /\ ~alive
    /\ ~dropped
    /\ dropped' = TRUE
    /\ UNCHANGED << transit_state, person_name, person_state, mutex, alive, pc,
                    fetched, prev, clock, fetches, advances, published, rpc,
                    canvas, stopped_at >>

(* TransitRender::render, called by the driver thread *)

\* self.state.lock()
RenderLock ==
    /\ rpc = "idle"
    /\ alive
    /\ mutex = "free"
    /\ mutex' = "render"
    /\ rpc' = "locked"
    /\ UNCHANGED << transit_state, person_name, person_state, alive, dropped,
                    pc, fetched, prev, clock, fetches, advances, published,
                    canvas, stopped_at >>

\* The body of render under the guard
RenderDraw ==
    /\ rpc = "locked"
    /\ canvas' = render_ops(transit_state, person_name, person_state)
    /\ rpc' = "drawn"
    /\ UNCHANGED << transit_state, person_name, person_state, mutex, alive,
                    dropped, pc, fetched, prev, clock, fetches, advances,
                    published, stopped_at >>

\* Ok(()) is returned and the guard goes out of scope; the driver shows the
\* frame and starts the next one.
RenderReturn ==
    /\ rpc = "drawn"
    /\ mutex' = "free"
    /\ canvas' = << >>
    /\ rpc' = "idle"
    /\ UNCHANGED << transit_state, person_name, person_state, alive, dropped,
                    pc, fetched, prev, clock, fetches, advances, published,
                    stopped_at >>

Next ==
    \/ PollIssue
    \/ PollExit
    \/ PollJoinErr
    \/ PollJoinOk
    \/ PollLock
    \/ PollUpdate
    \/ PollName
    \/ PollStatus
    \/ PollSleep
    \/ PollAbort
    \/ DropStore
    \/ DropAbort
    \/ RenderLock
    \/ RenderDraw
    \/ RenderReturn

Spec == Init /\ [][Next]_vars

-----------------------------------------------------------------------------
(* The state machine alone: one action per iteration of the polling loop    *)
(* with both fetches successful, from the join! to the end of the sleep.    *)

TickIn(places, feeds, steps, persons, n) ==
    /\ pc = "top"
    /\ alive
    /\ fetches < n
    /\ \E place \in places, trains \in feeds, person \in persons,
          step \in steps :
         LET result == update_state(transit_state, place, trains, clock)
         IN  /\ transit_state' = result.state
             /\ IF result.res = "Ok"
                THEN /\ person_name' = person.name
                     /\ person_state' = person.status
                     /\ published' = [ state |-> result.state,
                                       name |-> person.name,
                                       status |-> person.status ]
                     /\ clock' = clock + step
                     /\ pc' = "top"
                ELSE /\ pc' = "update_failed"
                     /\ UNCHANGED << person_name, person_state, published,
                                     clock >>
    /\ prev' = Some([ tag |-> taken(transit_state).tag, now |-> clock ])
    /\ advances' = advances + 1
    /\ fetches' = fetches + 1
    /\ UNCHANGED << mutex, alive, dropped, fetched, rpc, canvas, stopped_at >>

OnePerson == { [ name |-> Some("Ann"), status |-> Some("home") ] }

\* The person moves among all places; no train is in the feed.
TickStation == TickIn(Places, { << >> }, ClockSteps, OnePerson, MaxStationTicks)

SpecStation == Init /\ [][TickStation]_vars

\* The person is at station S1 or away from every station; every feed.
TickTrain == TickIn({ "atS1", "far" }, Feeds, LongSteps, OnePerson, MaxTrainTicks)

SpecTrain == Init /\ [][TickTrain]_vars

-----------------------------------------------------------------------------
(* Properties.  Under SpecStation and SpecTrain every reachable state with   *)
(* pc = "top" is the state in which the next call of update_state starts,    *)
(* with now = clock; a property of that call is stated for every place and   *)
(* every feed the call may be given.                                         *)

Local == taken(transit_state)

\* The person's sample at `place` lies within `radius` metres of the station.
Within(place, station, radius) ==
    /\ StationDistance(place, station) # GeoFail
    /\ StationDistance(place, station) < radius

StationSet == { Catalog[i] : i \in 1..Len(Catalog) } \ { "Unknown" }

CatalogIndex(station) == CHOOSE i \in 1..Len(Catalog) : Catalog[i] = station

\* The candidacy clock of `station` exists and the person is sampled inside
\* its radius at this tick.
Dwelling(place, station) ==
    /\ Local.tag = "NoStatus"
    /\ station \in DOMAIN Local.station_to_first_encounter
    /\ Within(place, station, AT_STATION_ENTER_RADIUS)

DwellAge(station) == clock - Local.station_to_first_encounter[station]

\* C1 as stated: from NoStatus, a station whose candidacy clock is at least
\* 30 s old (30 s included), with the person inside its radius and no other
\* station eligible, becomes the AtStation station in this tick.
C1_AtLeast30 ==
    (pc = "top" /\ Local.tag = "NoStatus") =>
        \A place \in Places, trains \in Feeds, station \in StationSet :
            ( /\ Dwelling(place, station)
              /\ DwellAge(station) >= NO_STATUS_TO_AT_STATION
              /\ \A other \in StationSet \ { station } :
                    ~( Dwelling(place, other)
                       /\ DwellAge(other) >= NO_STATUS_TO_AT_STATION ) )
            => update_state(transit_state, place, trains, clock)
                   = Ok(AtStation(station, EmptyMap, None))

\* C1 amended: from NoStatus, a station whose candidacy clock is more than
\* 30 s old, with the person inside its radius and no other station's clock
\* more than 30 s old with the person inside, becomes the AtStation station
\* in this tick; a clock of exactly 30 s leaves the state NoStatus.
C1_MoreThan30 ==
    (pc = "top" /\ Local.tag = "NoStatus") =>
        \A place \in Places, trains \in Feeds, station \in StationSet :
            /\ ( /\ Dwelling(place, station)
                 /\ DwellAge(station) > NO_STATUS_TO_AT_STATION
                 /\ \A other \in StationSet \ { station } :
                       ~( Dwelling(place, other)
                          /\ DwellAge(other) > NO_STATUS_TO_AT_STATION ) )
               => update_state(transit_state, place, trains, clock)
                      = Ok(AtStation(station, EmptyMap, None))
            /\ ( /\ Dwelling(place, station)
                 /\ DwellAge(station) = NO_STATUS_TO_AT_STATION
                 /\ \A other \in StationSet \ { station } :
                       ~( Dwelling(place, other)
                          /\ DwellAge(other) > NO_STATUS_TO_AT_STATION ) )
               => update_state(transit_state, place, trains, clock).state[1].tag
                      = "NoStatus"

\* Witness of C1: a tick has taken NoStatus to AtStation for a station.
C1_Witness ==
    /\ is_some(prev) /\ is_some(transit_state)
    /\ unwrap(prev).tag = "NoStatus"
    /\ unwrap(transit_state) = AtStation("S1", EmptyMap, None)
    /\ pc = "top"

\* The stations the NoStatus scan finds eligible at `place`: inside the
\* radius, with a candidacy clock more than 30 s old.
EligibleSet(place) ==
    { station \in StationSet :
        Dwelling(place, station)
        /\ DwellAge(station) > NO_STATUS_TO_AT_STATION }

\* `station` beats `other`: strictly nearer to the person, or equally near
\* and earlier in the catalog.
Beats(place, station, other) ==
    \/ StationDistance(place, station) < StationDistance(place, other)
    \/ /\ StationDistance(place, station) = StationDistance(place, other)
       /\ CatalogIndex(station) < CatalogIndex(other)

\* C5: with two or more stations eligible in a NoStatus tick, the tick
\* yields AtStation for the eligible station nearest to the person, the
\* earliest in catalog order among equally near ones.
C5_ClosestEligible ==
    (pc = "top" /\ Local.tag = "NoStatus") =>
        \A place \in Places \ { "antipode" }, trains \in Feeds :
            Cardinality(EligibleSet(place)) >= 2 =>
                \E station \in EligibleSet(place) :
                    /\ \A other \in EligibleSet(place) \ { station } :
                           Beats(place, station, other)
                    /\ update_state(transit_state, place, trains, clock)
                           = Ok(AtStation(station, EmptyMap, None))

\* Witness of C5: from NoStatus with the clocks of S1 and S2 both more than
\* 30 s old, the tick chooses S2 where S2 is nearer and S1 where both are
\* equally near.
C5_Witness ==
    /\ pc = "top" /\ Local.tag = "NoStatus"
    /\ EligibleSet("nearS2") = { "S1", "S2" }
    /\ EligibleSet("between") = { "S1", "S2" }
    /\ update_state(transit_state, "nearS2", << >>, clock)
           = Ok(AtStation("S2", EmptyMap, None))
    /\ update_state(transit_state, "between", << >>, clock)
           = Ok(AtStation("S1", EmptyMap, None))

\* The person is sampled outside the radius of the AtStation station.
OutsideStation(place) ==
    /\ StationDistance(place, Local.station) # GeoFail
    /\ ~(StationDistance(place, Local.station) < AT_STATION_LEAVE_RADIUS)

\* left_at is set and more than 60 s old.
LeaveTimeout ==
    /\ is_some(Local.time_outside_station)
    /\ clock - unwrap(Local.time_outside_station)
           > AT_STATION_TO_NO_STATUS_TIMEOUT

\* C6: from AtStation with no train matched, the tick yields a fresh NoStatus
\* exactly when the person is outside the station's radius and left_at is
\* more than 60 s old; otherwise the state stays AtStation, with left_at
\* cleared by an inside sample, set to now by the first outside sample and
\* kept by the following outside samples.
C6_LeaveAfter60 ==
    (pc = "top" /\ Local.tag = "AtStation") =>
        \A place \in Places \ { "antipode" }, trains \in Feeds :
            LET result == update_state(transit_state, place, trains, clock)
            IN  IF OutsideStation(place) /\ LeaveTimeout
                THEN result = Ok(NoStatus(EmptyMap))
                ELSE (result.res = "Ok" /\ unwrap(result.state).tag # "OnTrain")
                     => /\ unwrap(result.state).tag = "AtStation"
                        /\ unwrap(result.state).station = Local.station
                        /\ unwrap(result.state).time_outside_station =
                             IF ~OutsideStation(place) THEN None
                             ELSE IF is_some(Local.time_outside_station)
                             THEN Local.time_outside_station
                             ELSE Some(clock)

\* Witness of C6: a tick has taken AtStation to a fresh NoStatus, which only
\* the leave timeout does.
C6_Witness ==
    /\ is_some(prev) /\ is_some(transit_state)
    /\ unwrap(prev).tag = "AtStation"
    /\ unwrap(transit_state) = NoStatus(EmptyMap)
    /\ pc = "top"

\* Reachability of the boundary of C6: an outside sample at exactly 60 s.
C6_BoundaryReached ==
    /\ pc = "top" /\ Local.tag = "AtStation"
    /\ is_some(Local.time_outside_station)
    /\ clock - unwrap(Local.time_outside_station)
           = AT_STATION_TO_NO_STATUS_TIMEOUT

\* The feed holds train `id` at a distance that was computed.
InFeed(trains, id) ==
    \E i \in 1..Len(trains) :
        trains[i].train_number = id /\ trains[i].dist # GeoFail

FeedDistance(trains, id) ==
    trains[CHOOSE i \in 1..Len(trains) : trains[i].train_number = id].dist

\* The station, if any, whose 200 m radius contains the person.
ContainingStations(place) ==
    { station \in StationSet : Within(place, station, AT_STATION_ENTER_RADIUS) }

\* C2 as stated: from OnTrain with the tracked train in the feed and the
\* person outside its 400 m radius, the state is unchanged while
\* now - last_seen <= 300 s, and once the age exceeds 300 s the tick yields
\* AtStation for a station containing the person, or NoStatus if there is
\* none: OnTrain does not outlive the timeout.
C2_TimeoutLeavesTrain ==
    (pc = "top" /\ Local.tag = "OnTrain") =>
        \A place \in Places \ { "antipode" }, trains \in Feeds :
            ( /\ InFeed(trains, Local.train_id)
              /\ ~(FeedDistance(trains, Local.train_id) < ON_TRAIN_REMAIN_RADIUS) )
            => LET result == update_state(transit_state, place, trains, clock)
               IN  IF clock - Local.last_train_encounter
                          <= ON_TRAIN_TO_NO_STATUS_TIMEOUT
                   THEN result = Ok(Local)
                   ELSE /\ result.res = "Ok"
                        /\ IF ContainingStations(place) # { }
                           THEN /\ unwrap(result.state).tag = "AtStation"
                                /\ unwrap(result.state).station
                                       \in ContainingStations(place)
                           ELSE unwrap(result.state) = NoStatus(EmptyMap)

\* Reachability of the case of C2: OnTrain with last_seen more than 300 s old.
C2_Reached ==
    /\ pc = "top" /\ Local.tag = "OnTrain"
    /\ clock - Local.last_train_encounter > ON_TRAIN_TO_NO_STATUS_TIMEOUT

\* The classification the AtStation scan gives a sample of a train.
Classification(distance) ==
    IF distance < AT_STATION_LEAVE_RADIUS THEN "inside" ELSE "outside"

\* The classifications the encounter entry of train `id` holds.
Recorded(encounters, id) ==
    IF id \notin DOMAIN encounters THEN { }
    ELSE ( IF is_some(encounters[id].first_encounter_inside_station)
           THEN { "inside" } ELSE { } )
         \cup
         ( IF is_some(encounters[id].first_encounter_outside_station)
           THEN { "outside" } ELSE { } )

\* C4: a tick takes AtStation to OnTrain(T) only if the encounter entry of T
\* already holds exactly one classification, recorded at an earlier tick, and
\* this tick's sample of T (within 400 m) is classified the other way; an
\* entry of an AtStation state never holds both classifications, so a train
\* only ever classified one way is never matched.
C4_BothClassifications ==
    (pc = "top" /\ Local.tag = "AtStation") =>
        /\ \A id \in DOMAIN Local.train_id_to_first_encounter :
              /\ Cardinality(Recorded(Local.train_id_to_first_encounter, id)) = 1
              /\ \A field \in { "first_encounter_inside_station",
                                "first_encounter_outside_station" } :
                    is_some(Local.train_id_to_first_encounter[id][field])
                    => unwrap(Local.train_id_to_first_encounter[id][field]) < clock
        /\ \A place \in Places \ { "antipode" }, trains \in Feeds :
              LET result == update_state(transit_state, place, trains, clock)
              IN  (result.res = "Ok" /\ unwrap(result.state).tag = "OnTrain")
                  => LET id == unwrap(result.state).train_id
                     IN  /\ InFeed(trains, id)
                         /\ FeedDistance(trains, id) < ON_TRAIN_ENTER_RADIUS
                         /\ Recorded(Local.train_id_to_first_encounter, id)
                              \cup { Classification(FeedDistance(trains, id)) }
                                = { "inside", "outside" }
                         /\ Classification(FeedDistance(trains, id))
                              \notin Recorded(Local.train_id_to_first_encounter, id)

\* Witness of C4: a tick has taken AtStation to OnTrain for a train, with
\* last_seen the now of that tick.
C4_Witness ==
    /\ is_some(prev) /\ is_some(transit_state)
    /\ unwrap(prev).tag = "AtStation"
    /\ unwrap(transit_state) = OnTrain("T1", unwrap(prev).now)

\* C7: from OnTrain(T) with T absent from the feed, the tick yields a fresh
\* NoStatus, whatever the age of last_seen and wherever the person is.
C7_AbsentTrain ==
    (pc = "top" /\ Local.tag = "OnTrain") =>
        \A place \in Places, trains \in Feeds :
            (\A i \in 1..Len(trains) : trains[i].train_number # Local.train_id)
            => update_state(transit_state, place, trains, clock)
                   = Ok(NoStatus(EmptyMap))

\* Witness of C7: a tick has taken OnTrain to a fresh NoStatus.
C7_Witness ==
    /\ is_some(prev) /\ is_some(transit_state)
    /\ unwrap(prev).tag = "OnTrain"
    /\ unwrap(transit_state) = NoStatus(EmptyMap)

\* C3 as stated: after a failed call of update_state the holder still holds
\* exactly the last published snapshot, its state present.
C3_FailureKeepsSnapshot ==
    pc = "update_failed" => Holder = published

\* Reachability of the case of C3: update_state has failed after a snapshot
\* with a state was published.
C3_Reached ==
    pc = "update_failed" /\ is_some(published.state)

\* C8 as stated: whenever render holds the lock, the state, the name and the
\* status it reads are those of one publication (or the initial, empty holder).
C8_RenderSeesOnePublication ==
    rpc = "locked" => Holder = published

\* C9: once a fetch of a tick has failed, update_state is not called for
\* that tick, the holder stays as last published, and the task is over: no
\* fetch is issued and nothing is published from then on.
C9_FetchFailureEndsLoop ==
    [][ fetched'.res = "Err" =>
            /\ pc' = "fetch_failed"
            /\ fetches' = fetches
            /\ advances' = advances
            /\ Holder' = Holder
            /\ published' = published
            /\ Holder' = published' ]_vars

\* Witness of C9: a fetch has failed after a tick that published a state.
C9_Witness ==
    /\ fetched.res = "Err"
    /\ pc = "fetch_failed"
    /\ is_some(published.state)
    /\ advances = fetches - 1

\* C10: the fetches of a tick are issued only when every earlier tick has
\* called update_state once and finished its publication, with the lock
\* released; update_state is called once per tick whose fetches succeeded.
C10_SequentialTicks ==
    [][ /\ fetches' # fetches =>
              /\ fetches' = fetches + 1
              /\ advances = fetches
              /\ mutex # "poll"
              /\ Holder = published
              /\ (fetches > 0 => is_some(published.state))
        /\ advances' # advances =>
              /\ advances' = advances + 1
              /\ advances' = fetches
              /\ fetched.res = "Ok"
        /\ (fetched.res = "Ok" /\ fetched'.res # "Ok") => advances' = fetches' ]_vars

\* Witness of C10: the fetches of a third tick are in flight after two ticks
\* that each called update_state once and published.
C10_Witness ==
    /\ pc = "fetching"
    /\ fetches = 3
    /\ advances = 2
    /\ Holder = published
    /\ is_some(published.state)

-----------------------------------------------------------------------------
(* The liveness flag *)

\* The position the task moves to from `at` when its step is not an abort.
NextPosition(at, joined, updated) ==
    CASE at = "top"      -> "exited"
      [] at = "fetching" -> IF joined = "Err" THEN "fetch_failed" ELSE "lock"
      [] at = "lock"     -> "update"
      [] at = "update"   -> IF is_some(updated) THEN "name" ELSE "update_failed"
      [] at = "name"     -> "status"
      [] at = "status"   -> "sleep"
      [] at = "sleep"    -> "top"

InFlight == { "fetching", "lock", "update", "name", "status", "sleep" }

\* C11: the flag is read only at the top of an iteration.  The loop exits
\* only from the top with the flag false, and no fetch is issued with the flag
\* false; with the flag false and the task not aborted, an iteration in flight
\* takes the same steps as with the flag true (the join, the lock, the
\* update, the two writes that end the publication, the sleep), each of them
\* possible, and the task that exits has called update_state for every fetch
\* it issued and has published.
C11_FlagReadAtTop ==
    /\ [] ( /\ pc = "exited" =>
                  (~alive /\ advances = fetches /\ Holder = published)
            /\ (~alive /\ ~dropped /\ pc = "fetching") => ENABLED PollJoinOk
            /\ (~alive /\ pc = "update") => ENABLED PollUpdate
            /\ (~alive /\ pc = "name") => ENABLED PollName
            /\ (~alive /\ pc = "status") => ENABLED PollStatus
            /\ (~alive /\ ~dropped /\ pc = "sleep") => ENABLED PollSleep )
    /\ [][ /\ (pc' = "exited" /\ pc # "exited") => (pc = "top" /\ ~alive)
           /\ fetches' # fetches => (pc = "top" /\ alive)
           /\ (~alive /\ pc' # pc /\ pc' # "aborted") =>
                  pc' = NextPosition(pc, fetched'.res, transit_state')
           /\ (~alive /\ pc = "status" /\ pc' # pc) =>
                  /\ Holder' = published'
                  /\ published'.state = transit_state
                  /\ is_some(published'.state) ]_vars

\* Witness of C11: the flag was set false while the fetches of an iteration
\* were awaited; that iteration called update_state and published, and the
\* loop has exited at its next check without another fetch.
C11_Witness ==
    /\ pc = "exited"
    /\ stopped_at = Some("fetching")
    /\ advances = fetches
    /\ Holder = published
    /\ is_some(published.state)

-----------------------------------------------------------------------------
(* Idempotence of update_state *)

\* The variant of the state a call of update_state leaves; "None" after a
\* failed call.
VariantOf(state) == IF is_some(state) THEN unwrap(state).tag ELSE "None"

\* C12 as stated: for every state, place and feed, a second call of
\* update_state with the same now, place and feed leaves the state the first
\* call left.
C12_Idempotent ==
    pc = "top" =>
        \A place \in Places, trains \in Feeds :
            LET first == update_state(transit_state, place, trains, clock)
                second == update_state(first.state, place, trains, clock)
            IN  second.state = first.state

\* C12 amended: when the first call succeeds and leaves the variant it
\* started from, a second call with the same now, place and feed succeeds
\* and leaves the same state.
C12_IdempotentSameVariant ==
    pc = "top" =>
        \A place \in Places, trains \in Feeds :
            LET first == update_state(transit_state, place, trains, clock)
            IN  (first.res = "Ok" /\ VariantOf(first.state) = Local.tag)
                => update_state(first.state, place, trains, clock) = first

\* Witness of C12: an AtStation state that a call with train T1 at 100 m
\* changes (T1's inside encounter is recorded, left_at is set) without
\* leaving AtStation, and that a second call with the same inputs keeps.
C12_Witness ==
    /\ pc = "top" /\ Local.tag = "AtStation"
    /\ Local.station = "S1"
    /\ LET trains == << [ train_number |-> "T1", dist |-> 100 ] >>
           first == update_state(transit_state, "far", trains, clock)
       IN  /\ first.res = "Ok"
           /\ VariantOf(first.state) = "AtStation"
           /\ first.state # transit_state
           /\ unwrap(first.state).time_outside_station = Some(clock)
           /\ "T1" \in DOMAIN unwrap(first.state).train_id_to_first_encounter
           /\ update_state(first.state, "far", trains, clock) = first

-----------------------------------------------------------------------------
(* Fresh auxiliary data *)

\* The state is the one a variant starts with at a tick whose now is `now`.
Fresh(state, now) ==
    CASE state.tag = "NoStatus"  -> state = NoStatus(EmptyMap)
      [] state.tag = "AtStation" ->
             state = AtStation(state.station, EmptyMap, None)
      [] state.tag = "OnTrain"   ->
             state = OnTrain(state.train_id, now)

\* C13: a tick that changes the variant yields the new variant with fresh
\* auxiliary data: AtStation with an empty train-encounter map and no
\* left_at, NoStatus with an empty candidacy map, OnTrain with last_seen
\* equal to the now of the tick.
C13_FreshOnVariantChange ==
    pc = "top" =>
        \A place \in Places, trains \in Feeds :
            LET result == update_state(transit_state, place, trains, clock)
            IN  (result.res = "Ok" /\ VariantOf(result.state) # Local.tag)
                => Fresh(unwrap(result.state), clock)

\* Witness of C13: an AtStation state with a recorded train encounter and
\* left_at set, from which one tick leaves for a fresh NoStatus (the person
\* still away) and another for OnTrain with last_seen = now (the recorded
\* train now sampled the other way).
C13_Witness ==
    /\ pc = "top" /\ Local.tag = "AtStation"
    /\ DOMAIN Local.train_id_to_first_encounter # { }
    /\ is_some(Local.time_outside_station)
    /\ update_state(transit_state, "far", << >>, clock) = Ok(NoStatus(EmptyMap))
    /\ \E trains \in Feeds, id \in TrainIds :
           update_state(transit_state, "atS1", trains, clock)
               = Ok(OnTrain(id, clock))

-----------------------------------------------------------------------------
(* The sentinel station *)

\* The geofence tests of the person against every station can be computed.
Computable(place) ==
    \A station \in StationSet : StationDistance(place, station) # GeoFail

-----------------------------------------------------------------------------
(* Boarding *)

\* Every train of the feed has a distance that was computed.
ComputableFeed(trains) == \A i \in 1..Len(trains) : trains[i].dist # GeoFail

\* The i-th train of the feed comes to have both first-timestamps in this
\* tick: it is within 400 m, its entry holds one classification from an
\* earlier tick and this tick's sample is classified the other way.
Completes(trains, i) ==
    /\ trains[i].dist < ON_TRAIN_ENTER_RADIUS
    /\ Recorded(Local.train_id_to_first_encounter, trains[i].train_number) # { }
    /\ Classification(trains[i].dist)
           \notin Recorded(Local.train_id_to_first_encounter,
                           trains[i].train_number)

\* C15: from AtStation, in a tick in which the leave timeout does not fire
\* and a train of the feed comes to have both first-timestamps, whichever was
\* recorded first and however long ago, the state becomes OnTrain for that
\* train (the first such train in feed order) with last_seen = now.
C15_BoardOnBothEncounters ==
    (pc = "top" /\ Local.tag = "AtStation") =>
        \A place \in Places, trains \in Feeds :
            ( /\ StationDistance(place, Local.station) # GeoFail
              /\ ComputableFeed(trains)
              /\ ~(OutsideStation(place) /\ LeaveTimeout)
              /\ \E i \in 1..Len(trains) : Completes(trains, i) )
            => LET i == CHOOSE i \in 1..Len(trains) :
                            /\ Completes(trains, i)
                            /\ \A j \in 1..(i - 1) : ~Completes(trains, j)
               IN  update_state(transit_state, place, trains, clock)
                       = Ok(OnTrain(trains[i].train_number, clock))

\* Witness of C15: at station S1 the previous tick recorded an inside sample
\* of T1 and an outside sample of T2; this tick yields OnTrain(T1) on an
\* outside sample of T1 (300 m) and OnTrain(T2) on an inside sample of T2
\* (100 m), with last_seen = now.
C15_Witness ==
    /\ pc = "top" /\ Local.tag = "AtStation"
    /\ is_some(prev)
    /\ Local.train_id_to_first_encounter =
           MapInsert(MapInsert(EmptyMap,
               "T1", TrainEncounter(Some(unwrap(prev).now), None)),
               "T2", TrainEncounter(None, Some(unwrap(prev).now)))
    /\ update_state(transit_state, "atS1",
                    << [ train_number |-> "T1", dist |-> 300 ] >>, clock)
           = Ok(OnTrain("T1", clock))
    /\ update_state(transit_state, "atS1",
                    << [ train_number |-> "T2", dist |-> 100 ] >>, clock)
           = Ok(OnTrain("T2", clock))

-----------------------------------------------------------------------------
(* The lock and the suspension points *)

\* The positions at which the task holds the guard
Guarded == { "update", "name", "status" }

\* C16: the task holds the lock only between lock() and the end of the
\* block; while the fetches are awaited, during the sleep, and once the task
\* is over, the lock is not the task's, and a render call that is not in
\* progress can take the lock.
C16_NoLockAcrossAwait ==
    /\ mutex = "poll" <=> pc \in Guarded
    /\ (pc \in { "fetching", "sleep" } /\ rpc = "idle" /\ alive)
           => ENABLED RenderLock

\* Witness of C16: render holds the lock and has drawn a published state
\* while the fetches of the next tick are awaited.
C16_Witness ==
    /\ pc = "fetching"
    /\ mutex = "render"
    /\ rpc = "drawn"
    /\ canvas # << >>
    /\ is_some(published.state)

-----------------------------------------------------------------------------
(* What render draws *)

\* C17: a render call that finds no state in the holder (none published
\* yet, or none left) performs no fill and no text draw, and returns; a call
\* that finds a state performs the fill and the two text draws.
C17_NoStateNoDraw ==
    rpc = "drawn" =>
        /\ mutex = "render"
        /\ ~is_some(transit_state) => canvas = << >>
        /\ is_some(transit_state) => (Len(canvas) = 3 /\ canvas[1] = "fill")
        /\ ENABLED RenderReturn

\* Witness of C17: render has run on a holder without a state, before the
\* first publication, and has drawn nothing.
C17_Witness ==
    /\ rpc = "drawn"
    /\ ~is_some(transit_state)
    /\ advances = 0
    /\ canvas = << >>

\* The first line for a holder: the name, or the placeholder.
NameLine(holder) ==
    IF holder.name = None THEN << "Unknown" >> ELSE << holder.name[1] >>

\* The second line for a holder with a state.
StatusLine(holder) ==
    LET state == holder.state[1]
    IN  CASE state.tag = "NoStatus" ->
                 IF holder.status = None THEN << "Unknown" >>
                 ELSE << holder.status[1] >>
          [] state.tag = "AtStation" -> << "At Station", state.station >>
          [] state.tag = "OnTrain" -> << "On Train", state.train_id >>

\* C18: when render finds a state, what it draws after the fill is the name
\* line and the status line of the holder it locked: the name or the
\* placeholder; the status text or the placeholder for NoStatus, the
\* at-station message with the station for AtStation, the on-train message
\* with the train id for OnTrain.
C18_LinesFromSnapshot ==
    (rpc = "drawn" /\ is_some(transit_state)) =>
        canvas = << "fill", NameLine(Holder), StatusLine(Holder) >>

\* Witness of C18: render has drawn the placeholder and the on-train message
\* for a holder with OnTrain(T1) and no name.
C18_Witness ==
    /\ rpc = "drawn"
    /\ is_some(transit_state)
    /\ unwrap(transit_state).tag = "OnTrain"
    /\ person_name = None
    /\ canvas = << "fill", << "Unknown" >>, << "On Train", "T1" >> >>

-----------------------------------------------------------------------------
(* The transitions of one tick *)

\* The changes of variant one tick can make
VariantChanges ==
    { << "NoStatus", "AtStation" >>, << "AtStation", "NoStatus" >>,
      << "AtStation", "OnTrain" >>, << "OnTrain", "NoStatus" >>,
      << "OnTrain", "AtStation" >> }

\* C19: a tick keeps the variant or changes it along NoStatus to AtStation,
\* AtStation to NoStatus, AtStation to OnTrain, OnTrain to NoStatus or
\* OnTrain to AtStation, never NoStatus to OnTrain; the first tick, which
\* finds the state absent, yields NoStatus.
C19_SingleTickTransitions ==
    pc = "top" =>
        \A place \in Places, trains \in Feeds :
            LET result == update_state(transit_state, place, trains, clock)
            IN  result.res = "Ok" =>
                  /\ transit_state = None =>
                         unwrap(result.state).tag = "NoStatus"
                  /\ is_some(transit_state) =>
                         \/ unwrap(result.state).tag = unwrap(transit_state).tag
                         \/ << unwrap(transit_state).tag,
                                unwrap(result.state).tag >> \in VariantChanges

\* Witness of C19: the first tick, with the person at station S1, has left
\* NoStatus with the candidacy clock of S1 started.
C19_Witness ==
    /\ advances = 1
    /\ pc = "top"
    /\ transit_state = Some(NoStatus(MapInsert(EmptyMap, "S1", 0)))

\* C20: in a NoStatus tick, a station the person is sampled outside of
\* has no candidacy clock afterwards and is not the station of the
\* resulting AtStation; a station the person is inside of keeps the clock
\* it had or gets one started at now; the station of a resulting AtStation
\* had a clock more than 30 s old before the tick.  A clock therefore only
\* spans ticks at which the person was inside the radius.
C20_OutsideDropsClock ==
    (pc = "top" /\ Local.tag = "NoStatus") =>
        \A place \in Places, trains \in Feeds, station \in StationSet :
            Computable(place) =>
                LET result == update_state(transit_state, place, trains, clock)
                    new == unwrap(result.state)
                    old == Local.station_to_first_encounter
                    inside == Within(place, station, AT_STATION_ENTER_RADIUS)
                IN  /\ result.res = "Ok"
                    /\ new.tag \in { "NoStatus", "AtStation" }
                    /\ (new.tag = "NoStatus" /\ ~inside) =>
                           station \notin DOMAIN new.station_to_first_encounter
                    /\ (new.tag = "NoStatus" /\ inside) =>
                           /\ station \in DOMAIN new.station_to_first_encounter
                           /\ new.station_to_first_encounter[station] =
                                  IF station \in DOMAIN old THEN old[station]
                                  ELSE clock
                    /\ (new.tag = "AtStation" /\ new.station = station) =>
                           /\ inside
                           /\ station \in DOMAIN old
                           /\ clock - old[station] > NO_STATUS_TO_AT_STATION

\* Witness of C20: the clock of S1 is more than 30 s old; a tick with the
\* person away from S1 leaves an empty map, and a tick back at S1 15 s later
\* starts a new clock instead of yielding AtStation.
C20_Witness ==
    /\ pc = "top" /\ Local.tag = "NoStatus"
    /\ "S1" \in DOMAIN Local.station_to_first_encounter
    /\ DwellAge("S1") > NO_STATUS_TO_AT_STATION
    /\ LET away == update_state(transit_state, "far", << >>, clock)
       IN  /\ away = Ok(NoStatus(EmptyMap))
           /\ update_state(away.state, "atS1", << >>, clock + SLEEP_SECS)
                  = Ok(NoStatus(MapInsert(EmptyMap, "S1", clock + SLEEP_SECS)))

-----------------------------------------------------------------------------
(* Train encounters that are dropped *)

\* A feed of one train
OneTrain(id, distance) == << [ train_number |-> id, dist |-> distance ] >>

\* C21: an AtStation tick that stays AtStation leaves no encounter entry for
\* a train of the feed that is 400 m or more from the person; so after an
\* inside-station sample of a train, a tick with the train beyond 400 m
\* (500 m) and a later tick with the train between 200 m and 400 m (300 m)
\* do not yield OnTrain: the entry then holds the outside sample alone.
C21_FarTrainForgotten ==
    (pc = "top" /\ Local.tag = "AtStation") =>
        /\ \A place \in Places, trains \in Feeds :
               LET result == update_state(transit_state, place, trains, clock)
               IN  (result.res = "Ok" /\ VariantOf(result.state) = "AtStation")
                   => \A i \in 1..Len(trains) :
                          ~(trains[i].dist < ON_TRAIN_ENTER_RADIUS) =>
                              trains[i].train_number \notin DOMAIN
                                  unwrap(result.state).train_id_to_first_encounter
        /\ \A id \in DOMAIN Local.train_id_to_first_encounter :
               LET away == update_state(transit_state, "atS1",
                                        OneTrain(id, 500), clock)
                   back == update_state(away.state, "atS1", OneTrain(id, 300),
                                        clock + SLEEP_SECS)
               IN  Local.station = "S1" =>
                       /\ away.res = "Ok" /\ back.res = "Ok"
                       /\ id \notin DOMAIN
                              unwrap(away.state).train_id_to_first_encounter
                       /\ unwrap(back.state) =
                              AtStation("S1",
                                  MapInsert(
                                      unwrap(away.state).train_id_to_first_encounter,
                                      id,
                                      TrainEncounter(None,
                                                     Some(clock + SLEEP_SECS))),
                                  None)

\* Witness of C21: at station S1 only an inside sample of T1 is recorded; an
\* outside sample of T1 (300 m) in this tick would yield OnTrain(T1), while
\* after a tick with T1 at 500 m the same sample yields AtStation.
C21_Witness ==
    /\ pc = "top" /\ Local.tag = "AtStation" /\ Local.station = "S1"
    /\ "T1" \in DOMAIN Local.train_id_to_first_encounter
    /\ Recorded(Local.train_id_to_first_encounter, "T1") = { "inside" }
    /\ update_state(transit_state, "atS1", OneTrain("T1", 300), clock)
           = Ok(OnTrain("T1", clock))
    /\ LET away == update_state(transit_state, "atS1", OneTrain("T1", 500),
                                clock)
       IN  /\ VariantOf(away.state) = "AtStation"
           /\ VariantOf(update_state(away.state, "atS1", OneTrain("T1", 300),
                                     clock + SLEEP_SECS).state) = "AtStation"

-----------------------------------------------------------------------------
(* Several trains in one tick *)

\* The positions in the feed of the trains that complete both encounters
Completing(trains) == { i \in 1..Len(trains) : Completes(trains, i) }

\* C22: from AtStation, when two or more trains of the feed complete both
\* encounters in a tick in which the leave timeout does not fire, the state
\* becomes OnTrain for the one that comes first in the feed, be it the
\* nearer or the farther one.
C22_FirstInFeedWins ==
    (pc = "top" /\ Local.tag = "AtStation") =>
        \A place \in Places, trains \in Feeds :
            ( /\ StationDistance(place, Local.station) # GeoFail
              /\ ComputableFeed(trains)
              /\ ~(OutsideStation(place) /\ LeaveTimeout)
              /\ Cardinality(Completing(trains)) >= 2 )
            => \E i \in Completing(trains) :
                   /\ \A j \in Completing(trains) : i <= j
                   /\ update_state(transit_state, place, trains, clock)
                          = Ok(OnTrain(trains[i].train_number, clock))

\* Witness of C22: T1 holds an inside sample and T2 an outside sample; with
\* T1 at 300 m and T2 at 100 m both complete, and the tick yields OnTrain
\* for whichever is first in the feed: the farther T1, or the nearer T2.
C22_Witness ==
    /\ pc = "top" /\ Local.tag = "AtStation"
    /\ Recorded(Local.train_id_to_first_encounter, "T1") = { "inside" }
    /\ Recorded(Local.train_id_to_first_encounter, "T2") = { "outside" }
    /\ update_state(transit_state, "atS1",
                    OneTrain("T1", 300) \o OneTrain("T2", 100), clock)
           = Ok(OnTrain("T1", clock))
    /\ update_state(transit_state, "atS1",
                    OneTrain("T2", 100) \o OneTrain("T1", 300), clock)
           = Ok(OnTrain("T2", clock))

-----------------------------------------------------------------------------
(* The leave timeout and the train scan *)

\* C23: from AtStation, in a tick with the person outside the station and
\* left_at more than 60 s old, the result is a fresh NoStatus for every feed:
\* one with a train that would complete both encounters, and one whose
\* geofence test would fail, the trains not being scanned.
C23_LeaveBeforeTrains ==
    (pc = "top" /\ Local.tag = "AtStation") =>
        \A place \in Places, trains \in Feeds :
            (OutsideStation(place) /\ LeaveTimeout)
            => update_state(transit_state, place, trains, clock)
                   = Ok(NoStatus(EmptyMap))

\* Witness of C23: left_at is more than 60 s old and T1 holds an inside
\* sample; with T1 at 300 m the tick yields OnTrain(T1) when the person is
\* back inside the station and NoStatus when the person is still outside.
C23_Witness ==
    /\ pc = "top" /\ Local.tag = "AtStation" /\ Local.station = "S1"
    /\ LeaveTimeout
    /\ Recorded(Local.train_id_to_first_encounter, "T1") = { "inside" }
    /\ update_state(transit_state, "atS1", OneTrain("T1", 300), clock)
           = Ok(OnTrain("T1", clock))
    /\ update_state(transit_state, "far", OneTrain("T1", 300), clock)
           = Ok(NoStatus(EmptyMap))
    /\ update_state(transit_state, "far", OneTrain("T1", GeoFail), clock)
           = Ok(NoStatus(EmptyMap))

-----------------------------------------------------------------------------
(* Trains missing from the feed *)

\* The train ids of a feed
FeedIds(trains) == { trains[i].train_number : i \in 1..Len(trains) }

\* C25: an AtStation tick that stays AtStation keeps, unchanged, the
\* encounter entry of every train that is not in the feed; so after an
\* inside-station sample of a train, a tick without the train in the feed
\* and a later tick with the train between 200 m and 400 m (300 m) yield
\* OnTrain for it, and so do an outside sample, an absence and an inside
\* sample (100 m).
C25_AbsentTrainKeepsEntry ==
    (pc = "top" /\ Local.tag = "AtStation") =>
        /\ \A place \in Places, trains \in Feeds :
               LET result == update_state(transit_state, place, trains, clock)
                   old == Local.train_id_to_first_encounter
               IN  (result.res = "Ok" /\ VariantOf(result.state) = "AtStation")
                   => \A id \in (DOMAIN old) \ FeedIds(trains) :
                        /\ id \in DOMAIN
                               unwrap(result.state).train_id_to_first_encounter
                        /\ unwrap(result.state).train_id_to_first_encounter[id]
                               = old[id]
        /\ \A id \in DOMAIN Local.train_id_to_first_encounter :
               LET absent == update_state(transit_state, "atS1", << >>, clock)
                   other == IF Recorded(Local.train_id_to_first_encounter, id)
                                  = { "inside" }
                            THEN 300 ELSE 100
               IN  Local.station = "S1" =>
                       /\ VariantOf(absent.state) = "AtStation"
                       /\ update_state(absent.state, "atS1",
                                       OneTrain(id, other), clock + SLEEP_SECS)
                              = Ok(OnTrain(id, clock + SLEEP_SECS))

\* Witness of C25: T1 holds an inside sample; a tick with an empty feed
\* keeps the entry, and the outside sample of T1 (300 m) of the tick after
\* it yields OnTrain(T1).
C25_Witness ==
    /\ pc = "top" /\ Local.tag = "AtStation" /\ Local.station = "S1"
    /\ Recorded(Local.train_id_to_first_encounter, "T1") = { "inside" }
    /\ LET absent == update_state(transit_state, "atS1", << >>, clock)
       IN  /\ VariantOf(absent.state) = "AtStation"
           /\ unwrap(absent.state).train_id_to_first_encounter
                  = Local.train_id_to_first_encounter
           /\ update_state(absent.state, "atS1", OneTrain("T1", 300),
                           clock + SLEEP_SECS)
                  = Ok(OnTrain("T1", clock + SLEEP_SECS))

-----------------------------------------------------------------------------
(* The forced abort *)

\* C24: the abort ends the task only while it awaits the fetches or sleeps,
\* and changes neither the holder nor the lock; once the task is aborted the
\* lock is free, so that a lock() succeeds, and the holder is the one the
\* last completed publication left (the empty one if there was none).  A
\* task that has the guard when abort() is called finishes its block first.
C24_AbortLeavesViewWhole ==
    /\ [] ( pc = "aborted" =>
                /\ dropped
                /\ mutex = "free"
                /\ Holder = published
                /\ advances \in { fetches, fetches - 1 } )
    /\ [] ( (dropped /\ pc \in Guarded) => mutex = "poll" )
    /\ [][ (pc' = "aborted" /\ pc # "aborted") =>
               /\ pc \in { "fetching", "sleep" }
               /\ Holder' = Holder
               /\ published' = published
               /\ mutex' = mutex ]_vars
    /\ [][ (dropped /\ pc \in Guarded /\ pc' # pc) =>
               pc' = NextPosition(pc, fetched'.res, transit_state') ]_vars

\* Witness of C24: Drop ran while the task was between its two writes; the
\* task finished the publication and was aborted in the sleep, leaving the
\* published state in the holder and the lock free.
C24_Witness ==
    /\ pc = "aborted"
    /\ stopped_at = Some("status")
    /\ advances = fetches
    /\ mutex = "free"
    /\ Holder = published
    /\ is_some(published.state)

====
